---- MODULE Spec2Model ----
(***************************************************************************)
(* A model of scripts/generate-docs.js: the documentation generator that   *)
(* loads a YAML content plan, creates the output directories, and then     *)
(* produces one Markdown file per topic, either from an outline template   *)
(* or from the text returned by a call to the generation endpoint.         *)
(*                                                                         *)
(* The process is single threaded and every asynchronous step is awaited,  *)
(* so main() is a straight line of steps; `pc` is main's position.  The    *)
(* text of the prompt (createPromptForFile) and the contents of the        *)
(* OpenAPI document are not part of the model: a call to the endpoint is   *)
(* recorded with the model identifier it is submitted with and the text it *)
(* returns.  Of the filesystem's failures only EEXIST (mkdir) and ENOENT    *)
(* (writeFile into a missing directory) are modelled.                      *)
(***************************************************************************)
EXTENDS Integers, Sequences, FiniteSets, TLC

\* ------------------------------------------------------------------ bounds

\* The longest root topic list: long enough for the order among root topics
\* to show.  (Section lists are bounded by the catalogues they are drawn from.)
MaxRootTopics == 2

\* ------------------------------------------------------- program constants

DOCS_OUTPUT_DIR == "/docs"

TOPICS_TO_TEST == <<"index.md", "getting-started.md", "api-reference/get-all-tasks.md">>

\* The model identifier written into generateContentWithClaude's request.
HardCodedModel == "claude-3-7-sonnet-20250219"

\* ------------------------------------------------------ JavaScript values

\* A front-matter scalar, tagged with its typeof.
Str(s) == [t |-> "string", s |-> s, b |-> FALSE, n |-> 0]
Bool(b) == [t |-> "boolean", s |-> "", b |-> b, n |-> 0]
Num(n) == [t |-> "number", s |-> "", b |-> FALSE, n |-> n]
Undefined == [t |-> "undefined", s |-> "", b |-> FALSE, n |-> 0]

\* Template-literal interpolation `${v}` of a scalar.
JsToString(v) ==
  CASE v.t = "string" -> v.s
    [] v.t = "boolean" -> (IF v.b THEN "true" ELSE "false")
    [] v.t = "number" -> ToString(v.n)
    [] OTHER -> "undefined"

\* Array.prototype.includes
Includes(arr, x) == \E i \in DOMAIN arr : arr[i] = x

\* String.prototype.indexOf, 1-based; 0 when `p` does not occur in `s`.
IndexOf(s, p) ==
  LET hits == {i \in 1..(Len(s) - Len(p) + 1) : SubSeq(s, i, i + Len(p) - 1) = p}
  IN IF hits = {} THEN 0 ELSE CHOOSE i \in hits : \A j \in hits : i <= j

\* A variant that replaces every occurrence (replaceAll, or a /g pattern).
RECURSIVE StringReplaceAll(_, _, _)
StringReplaceAll(s, p, r) ==
  LET x == IndexOf(s, p)
  IN IF x = 0 THEN s
     ELSE SubSeq(s, 1, x - 1) \o r \o StringReplaceAll(SubSeq(s, x + Len(p), Len(s)), p, r)

\* String.prototype.replace with a string pattern: the first occurrence only.
\* (`r` holds no "$", so none of replace's special replacement patterns apply.)
StringReplace(s, p, r) ==
  LET i == IndexOf(s, p)
  IN IF i = 0 THEN s
     ELSE SubSeq(s, 1, i - 1) \o r \o SubSeq(s, i + Len(p), Len(s))

\* path.join(dir, name) for a plain relative `name` (no "." or ".." parts,
\* no leading or trailing slash).
PathJoin(dir, name) == IF name = "" THEN dir ELSE dir \o "/" \o name

\* Zero-padded decimal of width w, as toISOString pads its fields.
RECURSIVE Pad(_, _)
Pad(str, w) == IF Len(str) >= w THEN str ELSE Pad("0" \o str, w)

\* new Date().toISOString().split('T')[0] for an instant whose UTC calendar
\* fields are d.year, d.month, d.day.
IsoDate(d) ==
  Pad(ToString(d.year), 4) \o "-" \o Pad(ToString(d.month), 2) \o "-" \o Pad(ToString(d.day), 2)

\* ------------------------------------------------------------ front matter
\* topic.frontMatter is an object; its own keys keep insertion order, so it is
\* a sequence of [key, value] entries with distinct keys.

FmHas(fm, key) == \E i \in DOMAIN fm : fm[i].key = key

FmGet(fm, key) ==
  IF FmHas(fm, key) THEN fm[CHOOSE i \in DOMAIN fm : fm[i].key = key].value
  ELSE Undefined

\* fm[key] = value on a key the object already has: the key keeps its place.
FmSet(fm, key, value) ==
  [i \in DOMAIN fm |-> IF fm[i].key = key THEN [key |-> key, value |-> value] ELSE fm[i]]

\* -------------------------------------------------------------- the inputs
\* The configuration file (doc_support/_ai_doc_set.yaml) as yaml.load returns
\* it.  Of a section only the fields read outside the prompt are kept:
\* directory, topicSections (which may be absent) and topics.

Entry(key, value) == [key |-> key, value |-> value]

TopicIndex ==
  [filename |-> "index.md",
   frontMatter |-> <<Entry("title", Str("Home")),
                     Entry("nav_order", Str("$pos")),
                     Entry("ai-generated", Bool(FALSE)),
                     Entry("last_updated", Str("$today")),
                     Entry("description", Str("From $today to $today"))>>]

TopicGetAllTasks ==
  [filename |-> "get-all-tasks.md",
   frontMatter |-> <<Entry("title", Str("Get all tasks")),
                     Entry("nav_order", Str("$pos")),
                     Entry("api_version", Num(1))>>]

TopicOverview ==
  [filename |-> "overview.md",
   frontMatter |-> <<Entry("title", Str("Overview")),
                     Entry("nav_order", Str("$pos")),
                     Entry("ai-generated", Str("false"))>>]

TopicGettingStarted ==
  [filename |-> "getting-started.md",
   frontMatter |-> <<Entry("title", Str("Getting started")),
                     Entry("nav_order", Num(2)),
                     Entry("ai-generated", Bool(TRUE))>>]

RootCatalogue == {TopicIndex, TopicOverview, TopicGettingStarted}
SectionCatalogue == {TopicIndex, TopicGetAllTasks}

\* A section's topicSections: absent, or an array.
NoTopicSections == [defined |-> FALSE, items |-> <<>>]
TopicSections(items) == [defined |-> TRUE, items |-> items]

SectionShapes ==
  {[directory |-> "api-reference", topicSections |-> TopicSections(<<"Request", "Response">>)],
   [directory |-> "guides", topicSections |-> NoTopicSections]}

\* Sequences of distinct elements of S, at most n long.
SeqsNoRepeat(S, n) ==
  {s \in UNION {[1..m -> S] : m \in 0..n} : \A a, b \in DOMAIN s : a # b => s[a] # s[b]}

\* Topic lists hold distinct filenames (the output directory holds one file per
\* name) and sections have distinct directories.
SectionsOf(shapes) ==
  {[x \in DOMAIN shapes |->
      [directory |-> shapes[x].directory,
       topicSections |-> shapes[x].topicSections,
       topics |-> ts[x]]] :
     ts \in [DOMAIN shapes -> SeqsNoRepeat(SectionCatalogue, Cardinality(SectionCatalogue))]}

\* The configured model identifier: one that is not the request's literal.
AiModels == {"claude-3-5-haiku-20241022"}

Configs ==
  {[global |-> [aiModel |-> m], content |-> [topics |-> ts, sections |-> ss]] :
     m \in AiModels,
     ts \in SeqsNoRepeat(RootCatalogue, MaxRootTopics),
     ss \in UNION {SectionsOf(shapes) : shapes \in SeqsNoRepeat(SectionShapes, Cardinality(SectionShapes))}}

EmptyConfig == [global |-> [aiModel |-> ""], content |-> [topics |-> <<>>, sections |-> <<>>]]

\* The instants new Date() may return (their UTC calendar fields).
Instants == {[year |-> 2026, month |-> 1, day |-> 1]}

\* What a call of the generation endpoint may do: throw, or return a text.
Responses == {"---\ntitle: generated\n---\n# A\n", "# B\n"}
Outcomes == {[ok |-> FALSE, text |-> ""]} \cup {[ok |-> TRUE, text |-> t] : t \in Responses}

\* ------------------------------------------------- the program's functions

\* A variant without the recursive option's tolerance of an existing path.
MkdirExclusive(ds, path, recursive) ==
  IF path \in ds
    THEN [ok |-> FALSE, dirs |-> ds]
    ELSE [ok |-> TRUE, dirs |-> ds \cup {path}]

\* fs.mkdir(path, {recursive}) on the set `ds` of existing directories.  The
\* parent of every path the program makes exists by then.  Without recursive,
\* an existing path is EEXIST.
Mkdir(ds, path, recursive) ==
  IF path \in ds
    THEN [ok |-> recursive, dirs |-> ds]
    ELSE [ok |-> TRUE, dirs |-> ds \cup {path}]

\* The for loop of createDirectoryStructure over sections[from..]: it ends at
\* the first mkdir that throws.
RECURSIVE MkdirSections(_, _, _)
MkdirSections(ds, sections, from) ==
  IF from > Len(sections) THEN [ok |-> TRUE, dirs |-> ds]
  ELSE LET r == Mkdir(ds, PathJoin(DOCS_OUTPUT_DIR, sections[from].directory), TRUE)
       IN IF r.ok THEN MkdirSections(r.dirs, sections, from + 1) ELSE r

createDirectoryStructure(ds, cfg) ==
  LET r == Mkdir(ds, DOCS_OUTPUT_DIR, TRUE)
  IN IF r.ok THEN MkdirSections(r.dirs, cfg.content.sections, 1) ELSE r

\* Array.prototype.filter, as the indices (1-based) of the elements kept: the
\* filtered array holds the same topic objects as the declared one.
RECURSIVE FilterIdx(_, _)
FilterIdx(keep, from) ==
  IF from > Len(keep) THEN <<>>
  ELSE (IF keep[from] THEN <<from>> ELSE <<>>) \o FilterIdx(keep, from + 1)

\* A variant that runs over the root topics last to first.
RootTopicsReversed(cfg, mode) ==
  LET topics == cfg.content.topics
      kept == IF mode
                THEN FilterIdx([j \in DOMAIN topics |-> Includes(TOPICS_TO_TEST, topics[j].filename)], 1)
                ELSE [j \in DOMAIN topics |-> j]
  IN [x \in DOMAIN kept |-> kept[Len(kept) + 1 - x]]

\* rootTopicsToGenerate
RootTopicsToGenerate(cfg, mode) ==
  LET topics == cfg.content.topics
  IN IF mode
       THEN FilterIdx([j \in DOMAIN topics |-> Includes(TOPICS_TO_TEST, topics[j].filename)], 1)
       ELSE [j \in DOMAIN topics |-> j]

\* A variant that runs over the section's topics last to first.
SectionTopicsReversed(section, mode) ==
  LET topics == section.topics
      fullPath(j) == section.directory \o "/" \o topics[j].filename
      kept == IF mode
                THEN FilterIdx([j \in DOMAIN topics |-> Includes(TOPICS_TO_TEST, fullPath(j))], 1)
                ELSE [j \in DOMAIN topics |-> j]
  IN [x \in DOMAIN kept |-> kept[Len(kept) + 1 - x]]

\* A variant that tests the bare filename, as the root filter does.
SectionTopicsByFilename(section, mode) ==
  LET topics == section.topics
  IN IF mode
       THEN FilterIdx([j \in DOMAIN topics |-> Includes(TOPICS_TO_TEST, topics[j].filename)], 1)
       ELSE [j \in DOMAIN topics |-> j]

\* sectionTopicsToGenerate
SectionTopicsToGenerate(section, mode) ==
  LET topics == section.topics
      fullPath(j) == section.directory \o "/" \o topics[j].filename
  IN IF mode
       THEN FilterIdx([j \in DOMAIN topics |-> Includes(TOPICS_TO_TEST, fullPath(j))], 1)
       ELSE [j \in DOMAIN topics |-> j]

\* The $pos step of the section loop, on the element at `index` (0-based) of
\* the array the loop runs over.
ResolvePos(topic, index) ==
  IF FmGet(topic.frontMatter, "nav_order") = Str("$pos")
    THEN [topic EXCEPT !.frontMatter = FmSet(@, "nav_order", Str(ToString(index + 1)))]
    ELSE topic

\* The $today step of generateFile.
ResolveToday(fm, today) ==
  [x \in DOMAIN fm |->
     IF fm[x].value.t = "string"
       THEN Entry(fm[x].key, Str(StringReplace(fm[x].value.s, "$today", today)))
       ELSE fm[x]]

RECURSIVE FrontMatterLines(_, _)
FrontMatterLines(fm, from) ==
  IF from > Len(fm) THEN ""
  ELSE fm[from].key \o ": "
       \o (IF fm[from].value.t = "string" THEN "\"" \o fm[from].value.s \o "\""
           ELSE JsToString(fm[from].value))
       \o "\n" \o FrontMatterLines(fm, from + 1)

\* A variant that emits the sub-sections last to first.
RECURSIVE SuggestedSectionsReversed(_, _)
SuggestedSectionsReversed(items, from) ==
  IF from > Len(items) THEN ""
  ELSE SuggestedSectionsReversed(items, from + 1)
       \o "### " \o items[from] \o "\n\n"
       \o "*Add content for " \o items[from] \o " here*\n\n"

RECURSIVE SuggestedSections(_, _)
SuggestedSections(items, from) ==
  IF from > Len(items) THEN ""
  ELSE "### " \o items[from] \o "\n\n"
       \o "*Add content for " \o items[from] \o " here*\n\n"
       \o SuggestedSections(items, from + 1)

\* `section` is <<>> for null, <<s>> for the section s.
generateOutlineTemplate(topic, section) ==
  "---\n" \o FrontMatterLines(topic.frontMatter, 1)
  \o "---\n\n# " \o JsToString(FmGet(topic.frontMatter, "title")) \o "\n\n"
  \o "*This is an outline template for " \o topic.filename \o "*\n\n"
  \o (IF section # <<>> /\ section[1].topicSections.defined
        THEN "## Suggested Sections\n\n" \o SuggestedSections(section[1].topicSections.items, 1)
        ELSE "")

\* The request is built with a literal model identifier; `model` is not read.
\* `outcome` is what the endpoint does with the request.
generateContentWithClaude(model, outcome) ==
  [request |-> [model |-> HardCodedModel, max_tokens |-> 4000],
   threw |-> ~outcome.ok,
   text |-> outcome.text]

\* fs.writeFile(path.join(outputDir, topic.filename), content) on the disk
\* (ds: the directories, fls: path -> content): it creates or overwrites the
\* file, and throws (ENOENT) when outputDir does not exist.
writeFile(ds, fls, topic, outputDir, content) ==
  LET filePath == PathJoin(outputDir, topic.filename)
  IN IF outputDir \in ds
       THEN [ok |-> TRUE,
             files |-> [f \in DOMAIN fls \cup {filePath} |->
                          IF f = filePath THEN content ELSE fls[f]],
             events |-> <<[op |-> "write", ok |-> TRUE, model |-> "", path |-> filePath,
                           text |-> content]>>]
       ELSE [ok |-> FALSE, files |-> fls, events |-> <<>>]

\* A variant that tests the flag for falsiness instead of `=== false`.
generateFileFalsy(topic, cfg, outputDir, section, now, outcome, ds, fls) ==
  LET t2 == [topic EXCEPT !.frontMatter = ResolveToday(@, IsoDate(now))]
  IN IF FmGet(t2.frontMatter, "ai-generated") \in {Bool(FALSE), Undefined, Str(""), Num(0)}
       THEN LET w == writeFile(ds, fls, t2, outputDir, generateOutlineTemplate(t2, section))
            IN [topic |-> t2, threw |-> IF w.ok THEN "" ELSE "writeFile",
                files |-> w.files, events |-> w.events]
       ELSE LET r == generateContentWithClaude(cfg.global.aiModel, outcome)
                call == <<[op |-> "call", ok |-> ~r.threw, model |-> r.request.model,
                           path |-> "", text |-> r.text]>>
                w == writeFile(ds, fls, t2, outputDir, r.text)
            IN IF r.threw
                 THEN [topic |-> t2, threw |-> "generateContentWithClaude",
                       files |-> fls, events |-> call]
                 ELSE [topic |-> t2, threw |-> IF w.ok THEN "" ELSE "writeFile",
                       files |-> w.files, events |-> call \o w.events]

\* A variant that swallows the endpoint's failure and returns.
generateFileSwallow(topic, cfg, outputDir, section, now, outcome, ds, fls) ==
  LET t2 == [topic EXCEPT !.frontMatter = ResolveToday(@, IsoDate(now))]
  IN IF FmGet(t2.frontMatter, "ai-generated") = Bool(FALSE)
       THEN LET w == writeFile(ds, fls, t2, outputDir, generateOutlineTemplate(t2, section))
            IN [topic |-> t2, threw |-> IF w.ok THEN "" ELSE "writeFile",
                files |-> w.files, events |-> w.events]
       ELSE LET r == generateContentWithClaude(cfg.global.aiModel, outcome)
                call == <<[op |-> "call", ok |-> ~r.threw, model |-> r.request.model,
                           path |-> "", text |-> r.text]>>
                w == writeFile(ds, fls, t2, outputDir, r.text)
            IN IF r.threw
                 THEN [topic |-> t2, threw |-> "", files |-> fls, events |-> call]
                 ELSE [topic |-> t2, threw |-> IF w.ok THEN "" ELSE "writeFile",
                       files |-> w.files, events |-> call \o w.events]

\* generateFile on `topic`: the topic as it leaves (its front matter is changed
\* in place), the name of the function that threw ("" when none did), the
\* files on disk, and what was done in order (endpoint calls, file writes).
generateFile(topic, cfg, outputDir, section, now, outcome, ds, fls) ==
  LET t2 == [topic EXCEPT !.frontMatter = ResolveToday(@, IsoDate(now))]
  IN IF FmGet(t2.frontMatter, "ai-generated") = Bool(FALSE)
       THEN LET w == writeFile(ds, fls, t2, outputDir, generateOutlineTemplate(t2, section))
            IN [topic |-> t2, threw |-> IF w.ok THEN "" ELSE "writeFile",
                files |-> w.files, events |-> w.events]
       ELSE LET r == generateContentWithClaude(cfg.global.aiModel, outcome)
                call == <<[op |-> "call", ok |-> ~r.threw, model |-> r.request.model,
                           path |-> "", text |-> r.text]>>
                w == writeFile(ds, fls, t2, outputDir, r.text)
            IN IF r.threw
                 THEN [topic |-> t2, threw |-> "generateContentWithClaude",
                       files |-> fls, events |-> call]
                 ELSE [topic |-> t2, threw |-> IF w.ok THEN "" ELSE "writeFile",
                       files |-> w.files, events |-> call \o w.events]

\* ------------------------------------------------------------------- state

VARIABLES
  testMode,      \* TEST_MODE
  configFile,    \* the configuration file's content
  existingDirs,  \* the directories on disk when the process started
  config,        \* main's `config`: the loaded configuration, changed in place
  pc,            \* main's position: load, fetch, mkdir, root, section, done, failed
  i,             \* the section loop's position in config.content.sections (1-based)
  k,             \* `index`: the topic loop's position in the array it runs over (0-based)
  dirs,          \* the directories on disk
  files,         \* the files on disk written by this run: path -> content
  log,           \* endpoint calls and file writes, in the order made
  error          \* the function whose failure reached main().catch, "" if none

vars == <<testMode, configFile, existingDirs, config, pc, i, k, dirs, files, log, error>>

\* An entry of the log: what was done (op: call or write; ok: whether it
\* returned; model: the identifier a call was submitted with; path: the file a
\* write wrote; text: the text a call returned or a write wrote), for the topic at (1-based) place idx of
\* the declared topic list of section sec (0: the root topic list).
Logged(events, sec, idx) ==
  [x \in DOMAIN events |->
     [op |-> events[x].op, ok |-> events[x].ok, sec |-> sec, idx |-> idx,
      model |-> events[x].model, path |-> events[x].path, text |-> events[x].text]]

NoFiles == [f \in {} |-> ""]

\* The output tree is empty, or holds the directories an earlier run made.
Init ==
  /\ testMode \in BOOLEAN
  /\ configFile \in Configs
  /\ existingDirs \in {{}, createDirectoryStructure({}, configFile).dirs}
  /\ config = EmptyConfig
  /\ pc = "load"
  /\ i = 0
  /\ k = 0
  /\ dirs = existingDirs
  /\ files = NoFiles
  /\ log = <<>>
  /\ error = ""

\* main: const config = await loadConfig()
LoadConfig ==
  /\ pc = "load"
  /\ config' = configFile
  /\ pc' = "fetch"
  /\ UNCHANGED <<testMode, configFile, existingDirs, i, k, dirs, files, log, error>>

\* main: const apiSpec = await fetchOpenApiSpec(...): the validator returns
\* the document or throws, and the throw is rethrown to main().catch.
FetchOpenApiSpec ==
  /\ pc = "fetch"
  /\ \/ pc' = "mkdir" /\ error' = ""
     \/ pc' = "failed" /\ error' = "fetchOpenApiSpec"
  /\ UNCHANGED <<testMode, configFile, existingDirs, config, i, k, dirs, files, log>>

\* main: await createDirectoryStructure(config)
CreateDirectoryStructure ==
  /\ pc = "mkdir"
  /\ LET r == createDirectoryStructure(dirs, config)
     IN /\ dirs' = r.dirs
        /\ pc' = IF r.ok THEN "root" ELSE "failed"
        /\ error' = IF r.ok THEN "" ELSE "createDirectoryStructure"
  /\ k' = 0
  /\ UNCHANGED <<testMode, configFile, existingDirs, config, i, files, log>>

\* A variant of the root loop that takes the $pos step of the section loop.
GenerateRootTopicWithPos ==
  /\ pc = "root"
  /\ k < Len(RootTopicsToGenerate(config, testMode))
  /\ \E now \in Instants, outcome \in Outcomes :
       LET j == RootTopicsToGenerate(config, testMode)[k + 1]
           r == generateFile(ResolvePos(config.content.topics[j], k), config,
                             DOCS_OUTPUT_DIR, <<>>, now, outcome, dirs, files)
       IN /\ config' = [config EXCEPT !.content.topics[j] = r.topic]
          /\ files' = r.files
          /\ log' = log \o Logged(r.events, 0, j)
          /\ error' = r.threw
          /\ pc' = IF r.threw = "" THEN "root" ELSE "failed"
          /\ k' = IF r.threw = "" THEN k + 1 ELSE k
  /\ UNCHANGED <<testMode, configFile, existingDirs, i, dirs>>

\* One turn of the root topic loop of generateDocumentationFiles.
GenerateRootTopic ==
  /\ pc = "root"
  /\ k < Len(RootTopicsToGenerate(config, testMode))
  /\ \E now \in Instants, outcome \in Outcomes :
       LET j == RootTopicsToGenerate(config, testMode)[k + 1]
           r == generateFile(config.content.topics[j], config, DOCS_OUTPUT_DIR, <<>>,
                             now, outcome, dirs, files)
       IN /\ config' = [config EXCEPT !.content.topics[j] = r.topic]
          /\ files' = r.files
          /\ log' = log \o Logged(r.events, 0, j)
          /\ error' = r.threw
          /\ pc' = IF r.threw = "" THEN "root" ELSE "failed"
          /\ k' = IF r.threw = "" THEN k + 1 ELSE k
  /\ UNCHANGED <<testMode, configFile, existingDirs, i, dirs>>

\* The root topic loop ends and the section loop begins.
RootTopicsDone ==
  /\ pc = "root"
  /\ k = Len(RootTopicsToGenerate(config, testMode))
  /\ pc' = "section"
  /\ i' = 1
  /\ k' = 0
  /\ UNCHANGED <<testMode, configFile, existingDirs, config, dirs, files, log, error>>

\* One turn of the topic loop of section i.
GenerateSectionTopic ==
  /\ pc = "section"
  /\ i <= Len(config.content.sections)
  /\ k < Len(SectionTopicsToGenerate(config.content.sections[i], testMode))
  /\ \E now \in Instants, outcome \in Outcomes :
       LET section == config.content.sections[i]
           sectionPath == PathJoin(DOCS_OUTPUT_DIR, section.directory)
           j == SectionTopicsToGenerate(section, testMode)[k + 1]
           topic == ResolvePos(section.topics[j], k)
           r == generateFile(topic, config, sectionPath,
                             <<[section EXCEPT !.topics[j] = topic]>>,
                             now, outcome, dirs, files)
       IN /\ config' = [config EXCEPT !.content.sections[i].topics[j] = r.topic]
          /\ files' = r.files
          /\ log' = log \o Logged(r.events, i, j)
          /\ error' = r.threw
          /\ pc' = IF r.threw = "" THEN "section" ELSE "failed"
          /\ k' = IF r.threw = "" THEN k + 1 ELSE k
  /\ UNCHANGED <<testMode, configFile, existingDirs, i, dirs>>

\* The topic loop of section i ends; the section loop moves on.
NextSection ==
  /\ pc = "section"
  /\ i <= Len(config.content.sections)
  /\ k = Len(SectionTopicsToGenerate(config.content.sections[i], testMode))
  /\ i' = i + 1
  /\ k' = 0
  /\ UNCHANGED <<testMode, configFile, existingDirs, config, pc, dirs, files, log, error>>

\* generateDocumentationFiles returns and main ends: exit status 0.
Complete ==
  /\ pc = "section"
  /\ i > Len(config.content.sections)
  /\ pc' = "done"
  /\ UNCHANGED <<testMode, configFile, existingDirs, config, i, k, dirs, files, log, error>>

Next ==
  \/ LoadConfig
  \/ FetchOpenApiSpec
  \/ CreateDirectoryStructure
  \/ GenerateRootTopic
  \/ RootTopicsDone
  \/ GenerateSectionTopic
  \/ NextSection
  \/ Complete

Spec == Init /\ [][Next]_vars

\* process.exit(1) in main().catch; 0 when main returns; -1 while running.
ExitStatus == IF pc = "failed" THEN 1 ELSE IF pc = "done" THEN 0 ELSE -1

\* ------------------------------------------------ vocabulary of the claims

\* The topic at place idx of the declared list of section sec (0: the root
\* list), as configured and as it is now in memory.
DeclaredTopic(sec, idx) ==
  IF sec = 0 THEN configFile.content.topics[idx]
  ELSE configFile.content.sections[sec].topics[idx]

MemoryTopic(sec, idx) ==
  IF sec = 0 THEN config.content.topics[idx]
  ELSE config.content.sections[sec].topics[idx]

\* A topic's identity: its filename, or directory/filename in a section.
Identity(sec, idx) ==
  IF sec = 0 THEN DeclaredTopic(sec, idx).filename
  ELSE configFile.content.sections[sec].directory \o "/" \o DeclaredTopic(sec, idx).filename

InclusionSet == {"index.md", "getting-started.md", "api-reference/get-all-tasks.md"}

\* Every configured topic, as <<sec, idx>>.
AllJobs ==
  {<<0, j>> : j \in DOMAIN configFile.content.topics}
  \cup UNION {{<<s, j>> : j \in DOMAIN configFile.content.sections[s].topics} :
                s \in DOMAIN configFile.content.sections}

\* The jobs generateFile has been called for.
Processed == {<<log[x].sec, log[x].idx>> : x \in DOMAIN log}

EventsOf(job, op) == {x \in DOMAIN log : log[x].sec = job[1] /\ log[x].idx = job[2] /\ log[x].op = op}

Occurrences(s, p) ==
  Cardinality({x \in 1..(Len(s) - Len(p) + 1) : SubSeq(s, x, x + Len(p) - 1) = p})

\* ------------------------------------------------------------------ claims

\* C1: every processed section topic configured with nav_order "$pos" has,
\* in full and in restricted mode alike, nav_order resolved to 1 + its index
\* in the section's declared topic list (idx is that index, 1-based).
C1_PosIsDeclaredIndex ==
  \A job \in Processed :
    (job[1] > 0 /\ FmGet(DeclaredTopic(job[1], job[2]).frontMatter, "nav_order") = Str("$pos"))
      => FmGet(MemoryTopic(job[1], job[2]).frontMatter, "nav_order") = Str(ToString(job[2]))

\* C2: in restricted mode only topics whose identity is in the inclusion set
\* are processed (no call, no write for any other), and a run that ends with
\* success has processed every topic whose identity is in the set.
C2_RestrictedModeInclusion ==
  testMode =>
    /\ \A job \in Processed : Identity(job[1], job[2]) \in InclusionSet
    /\ \A f \in DOMAIN files : \E x \in DOMAIN log :
         /\ log[x].op = "write" /\ log[x].path = f
         /\ Identity(log[x].sec, log[x].idx) \in InclusionSet
    /\ pc = "done" =>
         \A job \in AllJobs : Identity(job[1], job[2]) \in InclusionSet => job \in Processed

C2_Witness ==
  /\ testMode
  /\ pc = "done"
  /\ \E job \in Processed : job[1] > 0
  /\ \E job \in AllJobs \ Processed : job[1] > 0
  /\ \E job \in AllJobs \ Processed : job[1] = 0

JobOf(x) == <<log[x].sec, log[x].idx>>

\* C3: when the endpoint call of a job fails, it is the last thing the run
\* does (no later call or write, no file for that job), the run has ended in
\* the failure state with exit status 1, and every file written before is on
\* disk with the content it was last written with.
C3_FailureStopsRun ==
  \A x \in DOMAIN log :
    (log[x].op = "call" /\ ~log[x].ok) =>
      /\ x = Len(log)
      /\ EventsOf(JobOf(x), "write") = {}
      /\ pc = "failed"
      /\ ExitStatus = 1
      /\ \A y \in 1..(x - 1) :
           log[y].op = "write" =>
             /\ log[y].path \in DOMAIN files
             /\ \/ files[log[y].path] = log[y].text
                \/ \E z \in (y + 1)..(x - 1) : log[z].op = "write" /\ log[z].path = log[y].path

C3_Witness ==
  /\ pc = "failed"
  /\ Len(log) >= 3
  /\ ~log[Len(log)].ok
  /\ \E y \in DOMAIN log : log[y].op = "write" /\ files[log[y].path] = log[y].text
  /\ AllJobs \ Processed # {}

\* The order the claim gives: the selected root topics in configuration order,
\* then the sections in configuration order, each with its selected topics in
\* configuration order.
Selected(job) == ~testMode \/ Identity(job[1], job[2]) \in InclusionSet

ListJobs(sec, topics) == SelectSeq([j \in DOMAIN topics |-> <<sec, j>>], Selected)

RECURSIVE SectionJobsFrom(_)
SectionJobsFrom(s) ==
  IF s > Len(configFile.content.sections) THEN <<>>
  ELSE ListJobs(s, configFile.content.sections[s].topics) \o SectionJobsFrom(s + 1)

JobOrder == ListJobs(0, configFile.content.topics) \o SectionJobsFrom(1)

\* The place in JobOrder of the job of each log entry (0: not in JobOrder).
RECURSIVE RanksFrom(_, _)
RanksFrom(order, x) ==
  IF x > Len(log) THEN <<>>
  ELSE <<IF \E r \in DOMAIN order : order[r] = JobOf(x)
           THEN CHOOSE r \in DOMAIN order : order[r] = JobOf(x)
           ELSE 0>> \o RanksFrom(order, x + 1)

\* C4: jobs run one at a time in the fixed order: the log walks JobOrder from
\* its start without skipping, the (at most two) steps of a job are adjacent,
\* its call before its write, and a run that ends with success has run them all.
C4_FixedOrder ==
  LET rank == RanksFrom(JobOrder, 1)
  IN /\ \A x \in DOMAIN log : rank[x] > 0
     /\ \A x, y \in DOMAIN log :
          x < y =>
            /\ rank[x] <= rank[y]
            /\ rank[x] = rank[y] => (y = x + 1 /\ log[x].op = "call" /\ log[y].op = "write")
     /\ {rank[x] : x \in DOMAIN log} = 1..Cardinality(Processed)
     /\ pc = "done" => Cardinality(Processed) = Len(JobOrder)

C4_Witness ==
  /\ pc = "done"
  /\ Len(configFile.content.topics) = 2
  /\ Len(configFile.content.sections) = 2
  /\ \E job \in Processed : job = <<0, 1>>
  /\ \E job \in Processed : job = <<0, 2>>
  /\ \E job \in Processed : job = <<1, 2>>
  /\ \E job \in Processed : job = <<2, 2>>
  /\ \E x \in DOMAIN log : log[x].op = "call"

\* The directories the configuration asks for.
ExpectedDirs ==
  {"/docs"} \cup {"/docs/" \o configFile.content.sections[s].directory :
                    s \in DOMAIN configFile.content.sections}

\* C5: in both modes, once a job has called the endpoint or written a file
\* (and from the moment the topic loops start) the root directory and the
\* directory of every configured section exist, whatever the filter keeps;
\* creating directories never fails on a tree that holds them already, and
\* the tree ends with the same directory set as on a first run.
C5_DirectoriesFirst ==
  /\ error # "createDirectoryStructure"
  /\ (log # <<>> \/ pc \in {"root", "section", "done"}) => dirs = ExpectedDirs

C5_Witness ==
  /\ testMode
  /\ existingDirs # {}
  /\ log # <<>>
  /\ \E s \in DOMAIN configFile.content.sections :
       /\ configFile.content.sections[s].topics # <<>>
       /\ \A j \in DOMAIN configFile.content.sections[s].topics : ~Selected(<<s, j>>)
       /\ ("/docs/" \o configFile.content.sections[s].directory) \in dirs

\* The forms today's date may take, for the instants the clock may show.
CurrentDates == {"2026-01-01"}

Digits == {"0", "1", "2", "3", "4", "5", "6", "7", "8", "9"}

IsDateForm(d) ==
  /\ Len(d) = 10
  /\ \A x \in 1..10 :
       IF x \in {5, 8} THEN SubSeq(d, x, x) = "-" ELSE SubSeq(d, x, x) \in Digits

\* `after` is `before` with its first "$today" replaced by a current date.
FirstMarkerDated(before, after) ==
  \E d \in CurrentDates, x \in 1..(Len(before) - 5) :
    /\ IsDateForm(d)
    /\ SubSeq(before, x, x + 5) = "$today"
    /\ \A y \in 1..(x - 1) : SubSeq(before, y, y + 5) # "$today"
    /\ after = SubSeq(before, 1, x - 1) \o d \o SubSeq(before, x + 6, Len(before))

\* C6: after generateFile's pass over a topic, every string field that held
\* "$today" has its first occurrence (only) replaced by the current date as
\* YYYY-MM-DD: one marker leaves none, two leave exactly one; non-string
\* fields and fields without the marker are as configured (nav_order "$pos"
\* of a section topic aside, which the section loop resolves).
C6_FirstTodayReplaced ==
  \A job \in Processed :
    LET before == DeclaredTopic(job[1], job[2]).frontMatter
        after == MemoryTopic(job[1], job[2]).frontMatter
    IN /\ Len(after) = Len(before)
       /\ \A x \in DOMAIN before :
            LET b == before[x].value
                a == after[x].value
                n == Occurrences(b.s, "$today")
            IN /\ after[x].key = before[x].key
               /\ b.t # "string" => a = b
               /\ (b.t = "string" /\ n = 0 /\ ~(job[1] > 0 /\ before[x].key = "nav_order" /\ b.s = "$pos"))
                    => a = b
               /\ (b.t = "string" /\ n > 0) =>
                    /\ a.t = "string"
                    /\ FirstMarkerDated(b.s, a.s)
                    /\ Occurrences(a.s, "$today") = n - 1

C6_Witness ==
  \E job \in Processed :
    LET before == DeclaredTopic(job[1], job[2]).frontMatter
        after == MemoryTopic(job[1], job[2]).frontMatter
    IN /\ \E x \in DOMAIN before :
            Occurrences(before[x].value.s, "$today") = 2 /\ Occurrences(after[x].value.s, "$today") = 1
       /\ \E x \in DOMAIN before :
            Occurrences(before[x].value.s, "$today") = 1 /\ after[x].value.s \in CurrentDates
       /\ \E x \in DOMAIN before : before[x].value.t = "boolean"

AiFlag(job) == FmGet(DeclaredTopic(job[1], job[2]).frontMatter, "ai-generated")

OutlineMarker(job) ==
  "*This is an outline template for " \o DeclaredTopic(job[1], job[2]).filename \o "*\n"

\* C7: a processed job calls the endpoint exactly once unless its
\* ai-generated value is exactly false, and then never: with false the one
\* thing done is writing the outline template; otherwise there is one call,
\* and what is written is the text the call returned.
C7_CallIffNotFalse ==
  \A job \in Processed :
    LET calls == EventsOf(job, "call")
        writes == EventsOf(job, "write")
    IN IF AiFlag(job) = Bool(FALSE)
         THEN /\ calls = {}
              /\ Cardinality(writes) = 1
              /\ \A w \in writes : IndexOf(log[w].text, OutlineMarker(job)) > 0
         ELSE /\ Cardinality(calls) = 1
              /\ \A c \in calls :
                   IF log[c].ok
                     THEN writes = {c + 1} /\ log[c + 1].text = log[c].text
                     ELSE writes = {}

C7_Witness ==
  /\ pc = "done"
  /\ \E job \in Processed : AiFlag(job) = Bool(FALSE)
  /\ \E job \in Processed : AiFlag(job) = Str("false") /\ EventsOf(job, "call") # {}
  /\ \E job \in Processed : AiFlag(job) = Undefined /\ EventsOf(job, "call") # {}

\* C8: every endpoint call is submitted with the model identifier of the
\* configuration's global settings, and the text it returns is written as the
\* file content verbatim.
C8_ConfiguredModel ==
  \A x \in DOMAIN log :
    log[x].op = "call" =>
      /\ log[x].model = configFile.global.aiModel
      /\ log[x].ok => (x + 1 \in DOMAIN log /\ log[x + 1].op = "write"
                        /\ log[x + 1].text = log[x].text)

\* C9: a processed root topic configured with nav_order "$pos" keeps
\* nav_order "$pos": in its front matter in memory (what a prompt is built
\* from) and in the front matter rendered into an outline template.
C9_RootKeepsPos ==
  \A job \in Processed :
    (job[1] = 0 /\ FmGet(DeclaredTopic(0, job[2]).frontMatter, "nav_order") = Str("$pos")) =>
      /\ FmGet(MemoryTopic(0, job[2]).frontMatter, "nav_order") = Str("$pos")
      /\ AiFlag(job) = Bool(FALSE) =>
           \A w \in EventsOf(job, "write") : IndexOf(log[w].text, "\nnav_order: \"$pos\"\n") > 0

C9_Witness ==
  /\ \E job \in Processed :
       /\ job[1] = 0
       /\ FmGet(DeclaredTopic(0, job[2]).frontMatter, "nav_order") = Str("$pos")
       /\ AiFlag(job) = Bool(FALSE)
       /\ EventsOf(job, "write") # {}
  /\ \E job \in Processed : job[1] > 0

\* A text as its lines, each ended by a line feed.
RECURSIVE Unlines(_)
Unlines(lines) == IF lines = <<>> THEN "" ELSE Head(lines) \o "\n" \o Unlines(Tail(lines))

\* One front-matter line per entry, in insertion order: strings in double
\* quotes, numbers and booleans bare.
FrontMatterBlock(fm) ==
  [x \in DOMAIN fm |->
     fm[x].key \o ": " \o
       (CASE fm[x].value.t = "string" -> "\"" \o fm[x].value.s \o "\""
          [] fm[x].value.t = "number" -> ToString(fm[x].value.n)
          [] fm[x].value.t = "boolean" -> (IF fm[x].value.b THEN "true" ELSE "false")
          [] OTHER -> "undefined")]

\* For each sub-section, in order: a heading of the given level with its
\* name, and a placeholder body line.
RECURSIVE SubSectionBlocks(_, _)
SubSectionBlocks(names, hashes) ==
  IF names = <<>> THEN <<>>
  ELSE <<hashes \o " " \o Head(names), "", "*Add content for " \o Head(names) \o " here*", "">>
       \o SubSectionBlocks(Tail(names), hashes)

OutlineHead(job) ==
  LET topic == MemoryTopic(job[1], job[2])
  IN <<"---">> \o FrontMatterBlock(topic.frontMatter)
     \o <<"---", "", "# " \o FmGet(topic.frontMatter, "title").s, "",
          "*This is an outline template for " \o topic.filename \o "*", "">>

\* The sub-section list of a job's section (none for a root topic).
DeclaredSubSections(job) ==
  IF job[1] = 0 THEN NoTopicSections ELSE configFile.content.sections[job[1]].topicSections

TemplatedWrites == {x \in DOMAIN log : log[x].op = "write" /\ AiFlag(JobOf(x)) = Bool(FALSE)}

\* C10 as stated: the templated content is the front-matter block, the
\* level-1 title heading, the marker line and, when the section declares a
\* sub-section list, per sub-section one level-2 heading with its name and a
\* placeholder line; nothing else.
C10_OutlineAsStated ==
  \A x \in TemplatedWrites :
    log[x].text =
      Unlines(OutlineHead(JobOf(x))
              \o (IF DeclaredSubSections(JobOf(x)).defined
                    THEN SubSectionBlocks(DeclaredSubSections(JobOf(x)).items, "##")
                    ELSE <<>>))

\* C10 as amended: as stated, except that a declared sub-section list yields
\* one level-2 heading "Suggested Sections" followed, per sub-section in
\* declared order, by a level-3 heading with its name and a placeholder line.
C10_OutlineAmended ==
  \A x \in TemplatedWrites :
    log[x].text =
      Unlines(OutlineHead(JobOf(x))
              \o (IF DeclaredSubSections(JobOf(x)).defined
                    THEN <<"## Suggested Sections", "">>
                         \o SubSectionBlocks(DeclaredSubSections(JobOf(x)).items, "###")
                    ELSE <<>>))

C10_Witness ==
  /\ \E x \in TemplatedWrites :
       /\ DeclaredSubSections(JobOf(x)).defined
       /\ Len(DeclaredSubSections(JobOf(x)).items) = 2
       /\ FmGet(MemoryTopic(log[x].sec, log[x].idx).frontMatter, "nav_order") = Str("2")
  /\ \E x \in TemplatedWrites : log[x].sec > 0 /\ ~DeclaredSubSections(JobOf(x)).defined
  /\ \E x \in TemplatedWrites : log[x].sec = 0

====
